---- MODULE Spec2Model ----
(***************************************************************************)
(* Model of the barbershop administration backend (src/app.py): the user,  *)
(* barber, client, service and appointment tables, the JWT session tokens, *)
(* and one action per Flask route handler.  A handler is a pure operator   *)
(* from the request and the tables to a response and the new tables; the   *)
(* action of the same name (capitalised) applies it to the state.          *)
(***************************************************************************)
EXTENDS Integers, Sequences, FiniteSets, TLC

VARIABLES usuarios, barberos, clientes, servicios, citas, seq, now, held, last,
          pend

vars ==
    <<usuarios, barberos, clientes, servicios, citas, seq, now, held, last, pend>>

tablas == <<usuarios, barberos, clientes, servicios, citas, seq>>

(***************************************************************************)
(* Bounds of the model.                                                    *)
(***************************************************************************)
\* The clock advances at most MaxTicks times, TickHours hours each time.
MaxTicks == 2

\* Each table's id sequence hands out at most MaxNuevos ids to create requests.
MaxNuevos == 1

(***************************************************************************)
(* Program constants.                                                      *)
(***************************************************************************)
JWT_EXPIRATION_HOURS == 24

SECRET_KEY == "tu-clave-secreta-cambiar-en-produccion"

admin_email == "Rodritapia92@gmail.com"

admin_password == "rodritapia924321"

\* Hours the clock advances in one step of the model.
TickHours == JWT_EXPIRATION_HOURS \div 2

\* A value standing for Python's None / a key that is not in the JSON body.
AUSENTE == "<ausente>"

\* The same for numeric fields (ids, prices).
NAUSENTE == 0 - 1

(***************************************************************************)
(* Password hashing (werkzeug.security).                                   *)
(***************************************************************************)
Salts == {"s1"}

generate_password_hash(password, salt) == [salt |-> salt, digest |-> <<salt, password>>]

check_password_hash(pwhash, password) == pwhash.digest = <<pwhash.salt, password>>

\* datetime.strftime('%Y-%m-%d'): the day of a time given in hours.
strftime_dia(t) == t \div 24

(***************************************************************************)
(* Session tokens.  A JWT is its payload and the key that signed it.       *)
(***************************************************************************)
NoJwt == [usuario_id |-> 0, exp |-> 0, key |-> "<none>"]

\* Variant: the token is signed with a key other than the one that verifies.
generar_token_otra_clave(usuario_id) ==
    [usuario_id |-> usuario_id, exp |-> now + JWT_EXPIRATION_HOURS, key |-> "otra-clave"]

generar_token(usuario_id) ==
    [usuario_id |-> usuario_id, exp |-> now + JWT_EXPIRATION_HOURS, key |-> SECRET_KEY]

\* Variant: the signature is checked, the expiry is not (verify_exp off).
verificar_token_sin_exp(token) ==
    IF token.key = SECRET_KEY THEN token.usuario_id ELSE 0

\* jwt.decode checks the signature, then the expiry; any failure gives None (0).
verificar_token(token) ==
    IF token.key = SECRET_KEY /\ token.exp > now THEN token.usuario_id ELSE 0

\* The Authorization header of a request: absent, without a second part
\* ("Bearer"), or "Bearer <jwt>".
NoHeader == [kind |-> "absent", jwt |-> NoJwt]

BareHeader == [kind |-> "bare", jwt |-> NoJwt]

Bearer(t) == [kind |-> "bearer", jwt |-> t]

get_token_from_request(h) ==
    IF h.kind = "absent" THEN NoJwt
    ELSE IF h.kind = "bare" THEN NoJwt
    ELSE h.jwt

\* Usuario.query.get(id): the id of the stored row, or 0 for None.
Usuario_get(id) == IF id \in DOMAIN usuarios THEN id ELSE 0

\* The id of the resolved user, or 0 for None.
verify_token_and_get_user(h) ==
    LET token == get_token_from_request(h) IN
    IF token = NoJwt THEN 0
    ELSE LET usuario_id == verificar_token(token) IN
         IF usuario_id = 0 THEN 0
         ELSE Usuario_get(usuario_id)

(***************************************************************************)
(* Requests the environment sends.                                         *)
(***************************************************************************)
\* A token signed with another key, for the first user and far from expiry.
Forged == [usuario_id |-> 1, exp |-> JWT_EXPIRATION_HOURS * 4, key |-> "otra-clave"]

TokUids == 0..2

\* Correctly signed tokens the environment presents: for each subject, one that
\* expires at this very moment and one issued at this moment; and the token the
\* client kept.
Jwts ==
    {[usuario_id |-> u, exp |-> e, key |-> SECRET_KEY] :
        u \in TokUids, e \in {now, now + JWT_EXPIRATION_HOURS}}
    \cup {held.token, Forged}

Headers == {NoHeader, BareHeader} \cup {Bearer(t) : t \in Jwts \ {NoJwt}}

\* OPTIONS requests are sent without a header, with a forged and with a valid one.
OptHeaders == {NoHeader, Bearer(Forged), Bearer(generar_token(1))}

Reqs(method, hs) ==
    {[method |-> method, auth |-> h] : h \in hs}
    \cup {[method |-> "OPTIONS", auth |-> h] : h \in OptHeaders}

(***************************************************************************)
(* Responses.                                                              *)
(***************************************************************************)
\* The 'usuario' of a response that carries none.
NoUsuario ==
    [id |-> 0, email |-> "", nombre |-> "", rol |-> "", estado |-> "",
     fecha_registro |-> 0]

Resp(status, error) ==
    [status |-> status, error |-> error, token |-> NoJwt, usuario |-> NoUsuario]

Preflight == Resp(200, "")

E401 == Resp(401, "Token invalido o no encontrado")

E403 == Resp(403, "Acceso denegado. Se requiere rol de administrador")

\* handle_db_error on an exception whose text names no connection problem.
E500 == Resp(500, "Error interno")

Idle ==
    [op |-> "idle", method |-> "", status |-> 0, error |-> "", token |-> NoJwt,
     usuario |-> NoUsuario]

Sent(op, method, r) ==
    [op |-> op, method |-> method, status |-> r.status, error |-> r.error,
     token |-> r.token, usuario |-> r.usuario]

(***************************************************************************)
(* Usuario                                                                 *)
(***************************************************************************)
Usuario_to_dict(tabla, id) ==
    LET u == tabla[id] IN
    [id |-> id, email |-> u.email, nombre |-> u.nombre, rol |-> u.rol,
     estado |-> u.estado, fecha_registro |-> strftime_dia(u.fecha_registro)]

\* Usuario.query.filter_by(email=...).first(): the id or 0.
Usuario_by_email(email) ==
    IF \E i \in DOMAIN usuarios : usuarios[i].email = email
    THEN CHOOSE i \in DOMAIN usuarios : usuarios[i].email = email
    ELSE 0

RegistroBodies ==
    {[json |-> "null", email |-> AUSENTE, password |-> AUSENTE, nombre |-> AUSENTE,
      rol |-> AUSENTE]}
    \cup {[json |-> "object", email |-> e, password |-> p, nombre |-> "A", rol |-> r] :
            e \in {admin_email, "a@x.com"}, p \in {AUSENTE, "pw123456"},
            r \in {AUSENTE, "admin"}}

\* Variant: no lookup of the email before the insert.
registro_sin_unicidad(req, data, salt) ==
    IF req.method = "OPTIONS" THEN [resp |-> Preflight, usuarios |-> usuarios]
    ELSE IF data.json = "null" \/ data.email = AUSENTE \/ data.password = AUSENTE
            \/ data.nombre = AUSENTE
    THEN [resp |-> Resp(400, "Email, password y nombre son requeridos"),
          usuarios |-> usuarios]
    ELSE LET id == Len(usuarios) + 1
             nuevo_usuario ==
                 [email |-> data.email,
                  password_hash |-> generate_password_hash(data.password, salt),
                  nombre |-> data.nombre,
                  rol |-> IF data.rol = AUSENTE THEN "barbero" ELSE data.rol,
                  estado |-> "activo",
                  fecha_registro |-> now]
             tabla == Append(usuarios, nuevo_usuario)
         IN [resp |-> [status |-> 201, error |-> "", token |-> generar_token(id),
                       usuario |-> Usuario_to_dict(tabla, id)],
             usuarios |-> tabla]

registro(req, data, salt) ==
    IF req.method = "OPTIONS" THEN [resp |-> Preflight, usuarios |-> usuarios]
    ELSE IF data.json = "null" \/ data.email = AUSENTE \/ data.password = AUSENTE
            \/ data.nombre = AUSENTE
    THEN [resp |-> Resp(400, "Email, password y nombre son requeridos"),
          usuarios |-> usuarios]
    ELSE IF Usuario_by_email(data.email) # 0
    THEN [resp |-> Resp(409, "El email ya esta registrado"), usuarios |-> usuarios]
    ELSE LET id == Len(usuarios) + 1
             nuevo_usuario ==
                 [email |-> data.email,
                  password_hash |-> generate_password_hash(data.password, salt),
                  nombre |-> data.nombre,
                  rol |-> IF data.rol = AUSENTE THEN "barbero" ELSE data.rol,
                  estado |-> "activo",
                  fecha_registro |-> now]
             tabla == Append(usuarios, nuevo_usuario)
         IN [resp |-> [status |-> 201, error |-> "", token |-> generar_token(id),
                       usuario |-> Usuario_to_dict(tabla, id)],
             usuarios |-> tabla]

Registro ==
    /\ last = Idle
    /\ \E req \in Reqs("POST", {NoHeader}), data \in RegistroBodies, salt \in Salts :
         LET r == registro(req, data, salt) IN
         /\ usuarios' = r.usuarios
         /\ last' = Sent("registro", req.method, r.resp)
    /\ UNCHANGED <<barberos, clientes, servicios, citas, seq, now, held, pend>>

LoginBodies ==
    {[json |-> "null", email |-> AUSENTE, password |-> AUSENTE]}
    \cup {[json |-> "object", email |-> e, password |-> p] :
            e \in {admin_email, "a@x.com", "nadie@x.com"},
            p \in {AUSENTE, "pw123456", admin_password}}

\* Variant: the password is not compared with the stored hash.
login_sin_password(req, data) ==
    IF req.method = "OPTIONS" THEN Preflight
    ELSE IF data.json = "null" \/ data.email = AUSENTE \/ data.password = AUSENTE
    THEN Resp(400, "Email y password son requeridos")
    ELSE LET usuario == Usuario_by_email(data.email) IN
         IF usuario = 0
         THEN Resp(401, "Email o contrasena incorrectos")
         ELSE [status |-> 200, error |-> "", token |-> generar_token(usuario),
               usuario |-> Usuario_to_dict(usuarios, usuario)]

login(req, data) ==
    IF req.method = "OPTIONS" THEN Preflight
    ELSE IF data.json = "null" \/ data.email = AUSENTE \/ data.password = AUSENTE
    THEN Resp(400, "Email y password son requeridos")
    ELSE LET usuario == Usuario_by_email(data.email) IN
         IF usuario = 0
            \/ ~check_password_hash(usuarios[usuario].password_hash, data.password)
         THEN Resp(401, "Email o contrasena incorrectos")
         ELSE [status |-> 200, error |-> "", token |-> generar_token(usuario),
               usuario |-> Usuario_to_dict(usuarios, usuario)]

Login ==
    /\ last = Idle
    /\ \E req \in Reqs("POST", {NoHeader}), data \in LoginBodies :
         last' = Sent("login", req.method, login(req, data))
    /\ UNCHANGED <<tablas, now, held, pend>>

\* Variant: the gate of /me names the step that failed.
get_current_usuario_con_motivo(req) ==
    IF req.method = "OPTIONS" THEN Preflight
    ELSE IF req.auth.kind = "absent" THEN Resp(401, "Token no encontrado")
    ELSE IF req.auth.kind = "bare" THEN Resp(401, "Formato de token invalido")
    ELSE IF verificar_token(req.auth.jwt) = 0 THEN Resp(401, "Token invalido o expirado")
    ELSE IF Usuario_get(verificar_token(req.auth.jwt)) = 0
    THEN Resp(401, "Usuario no encontrado")
    ELSE [status |-> 200, error |-> "", token |-> NoJwt,
          usuario |-> Usuario_to_dict(usuarios, verificar_token(req.auth.jwt))]

get_current_usuario(req) ==
    IF req.method = "OPTIONS" THEN Preflight
    ELSE LET usuario == verify_token_and_get_user(req.auth) IN
         IF usuario = 0 THEN E401
         ELSE [status |-> 200, error |-> "", token |-> NoJwt,
               usuario |-> Usuario_to_dict(usuarios, usuario)]

GetCurrentUsuario ==
    /\ last = Idle
    /\ \E req \in Reqs("GET", Headers) :
         last' = Sent("get_current_usuario", req.method, get_current_usuario(req))
    /\ UNCHANGED <<tablas, now, held, pend>>

\* Variant: logout with the role check of the admin routes.
logout_solo_admin(req) ==
    IF req.method = "OPTIONS" THEN Preflight
    ELSE LET usuario == verify_token_and_get_user(req.auth) IN
         IF usuario = 0 THEN E401
         ELSE IF usuarios[usuario].rol # "admin" THEN E403
         ELSE Resp(200, "")

logout(req) ==
    IF req.method = "OPTIONS" THEN Preflight
    ELSE LET usuario == verify_token_and_get_user(req.auth) IN
         IF usuario = 0 THEN E401
         ELSE Resp(200, "")

Logout ==
    /\ last = Idle
    /\ \E req \in Reqs("POST", Headers) :
         last' = Sent("logout", req.method, logout(req))
    /\ UNCHANGED <<tablas, now, held, pend>>

(***************************************************************************)
(* Tables with deletable rows are functions from the stored ids to rows.   *)
(***************************************************************************)
Insert(t, id, row) == [i \in DOMAIN t \cup {id} |-> IF i = id THEN row ELSE t[i]]

Delete(t, id) == [i \in DOMAIN t \ {id} |-> t[i]]

\* Ids the environment names in URLs: one no table ever holds, and the first.
IdInputs == {0, 1}

\* str.strip() on the names the environment sends.
strip(s) == IF s = " Nuevo " THEN "Nuevo" ELSE IF s = "  " THEN "" ELSE s

\* A unique=True column: whether another row already holds the (non-NULL) value.
email_duplicado(t, id, email) ==
    email # AUSENTE /\ \E i \in DOMAIN t \ {id} : t[i].email = email

(***************************************************************************)
(* Barbero                                                                 *)
(***************************************************************************)
SeedBarberos ==
    <<[nombre |-> "Juan Carlos", email |-> "juan@example.com",
       telefono |-> "1234567890", comision |-> 25],
      [nombre |-> "Pedro Lopez", email |-> "pedro@example.com",
       telefono |-> "0987654321", comision |-> 20],
      [nombre |-> "Miguel Ruiz", email |-> "miguel@example.com",
       telefono |-> "1122334455", comision |-> 22]>>

NuevoBarbero(nombre, email, telefono, comision) ==
    [nombre |-> nombre, email |-> email, telefono |-> telefono, comision |-> comision,
     estado |-> "activo", fecha_registro |-> now]

Barbero_to_dict(id) ==
    LET b == barberos[id] IN
    [id |-> id, nombre |-> b.nombre, email |-> b.email, telefono |-> b.telefono,
     comision |-> b.comision, estado |-> b.estado,
     fecha_registro |-> strftime_dia(b.fecha_registro)]

get_barberos(req) ==
    IF req.method = "OPTIONS" THEN [resp |-> Preflight, body |-> <<>>]
    ELSE LET usuario == verify_token_and_get_user(req.auth) IN
         IF usuario = 0 THEN [resp |-> E401, body |-> <<>>]
         ELSE IF usuarios[usuario].rol # "admin" THEN [resp |-> E403, body |-> <<>>]
         ELSE [resp |-> Resp(200, ""),
               body |-> [id \in DOMAIN barberos |-> Barbero_to_dict(id)]]

GetBarberos ==
    /\ last = Idle
    /\ \E req \in Reqs("GET", Headers) :
         last' = Sent("get_barberos", req.method, get_barberos(req).resp)
    /\ UNCHANGED <<tablas, now, held, pend>>

CrearBarberoBodies ==
    {[json |-> "null", nombre |-> AUSENTE, email |-> AUSENTE, telefono |-> AUSENTE,
      comision |-> NAUSENTE],
     [json |-> "object", nombre |-> AUSENTE, email |-> AUSENTE, telefono |-> AUSENTE,
      comision |-> NAUSENTE],
     [json |-> "object", nombre |-> "  ", email |-> AUSENTE, telefono |-> AUSENTE,
      comision |-> NAUSENTE],
     [json |-> "object", nombre |-> " Nuevo ", email |-> AUSENTE, telefono |-> AUSENTE,
      comision |-> NAUSENTE],
     [json |-> "object", nombre |-> " Nuevo ", email |-> "juan@example.com",
      telefono |-> AUSENTE, comision |-> 30]}

crear_barbero(req, data) ==
    LET same == [barberos |-> barberos, seq |-> seq] IN
    IF req.method = "OPTIONS" THEN [resp |-> Preflight] @@ same
    ELSE LET usuario == verify_token_and_get_user(req.auth) IN
         IF usuario = 0 THEN [resp |-> E401] @@ same
         ELSE IF usuarios[usuario].rol # "admin" THEN [resp |-> E403] @@ same
         ELSE IF data.json = "null" \/ data.nombre = AUSENTE \/ strip(data.nombre) = ""
         THEN [resp |-> Resp(400, "El nombre es requerido")] @@ same
         ELSE LET nuevo_barbero ==
                      NuevoBarbero(strip(data.nombre), strip(data.email),
                                   strip(data.telefono),
                                   IF data.comision = NAUSENTE THEN 20
                                   ELSE data.comision)
              IN IF email_duplicado(barberos, seq.barberos, nuevo_barbero.email)
                 THEN [resp |-> E500] @@ same
                 ELSE [resp |-> Resp(201, ""),
                       barberos |-> Insert(barberos, seq.barberos, nuevo_barbero),
                       seq |-> [seq EXCEPT !.barberos = @ + 1]]

CrearBarbero ==
    /\ last = Idle
    /\ \E req \in Reqs("POST", Headers), data \in CrearBarberoBodies :
         LET r == crear_barbero(req, data) IN
         /\ r.resp.status = 201 => seq.barberos <= Len(SeedBarberos) + MaxNuevos
         /\ barberos' = r.barberos
         /\ seq' = r.seq
         /\ last' = Sent("crear_barbero", req.method, r.resp)
    /\ UNCHANGED <<usuarios, clientes, servicios, citas, now, held, pend>>

ActualizarBarberoBodies ==
    {[json |-> "null", nombre |-> AUSENTE, email |-> AUSENTE, telefono |-> AUSENTE,
      comision |-> NAUSENTE, estado |-> AUSENTE],
     [json |-> "object", nombre |-> "Renombrado", email |-> AUSENTE,
      telefono |-> AUSENTE, comision |-> NAUSENTE, estado |-> AUSENTE],
     [json |-> "object", nombre |-> AUSENTE, email |-> "pedro@example.com",
      telefono |-> AUSENTE, comision |-> NAUSENTE, estado |-> AUSENTE]}

actualizar_barbero(req, id, data) ==
    LET same == [barberos |-> barberos] IN
    IF req.method = "OPTIONS" THEN [resp |-> Preflight] @@ same
    ELSE LET usuario == verify_token_and_get_user(req.auth) IN
         IF usuario = 0 THEN [resp |-> E401] @@ same
         ELSE IF usuarios[usuario].rol # "admin" THEN [resp |-> E403] @@ same
         ELSE IF id \notin DOMAIN barberos
         THEN [resp |-> Resp(404, "Barbero no encontrado")] @@ same
         ELSE IF data.json = "null" THEN [resp |-> E500] @@ same
         ELSE LET b == barberos[id]
                  barbero ==
                      [b EXCEPT
                         !.nombre = IF data.nombre # AUSENTE THEN data.nombre ELSE @,
                         !.email = IF data.email # AUSENTE THEN data.email ELSE @,
                         !.telefono = IF data.telefono # AUSENTE THEN data.telefono
                                      ELSE @,
                         !.comision = IF data.comision # NAUSENTE THEN data.comision
                                      ELSE @,
                         !.estado = IF data.estado # AUSENTE THEN data.estado ELSE @]
              IN IF email_duplicado(barberos, id, barbero.email)
                 THEN [resp |-> E500] @@ same
                 ELSE [resp |-> Resp(200, ""),
                       barberos |-> [barberos EXCEPT ![id] = barbero]]

ActualizarBarbero ==
    /\ last = Idle
    /\ \E req \in Reqs("PUT", Headers), id \in IdInputs, data \in ActualizarBarberoBodies :
         LET r == actualizar_barbero(req, id, data) IN
         /\ barberos' = r.barberos
         /\ last' = Sent("actualizar_barbero", req.method, r.resp)
    /\ UNCHANGED <<usuarios, clientes, servicios, citas, seq, now, held, pend>>

\* Variant: the barber row is deleted whether or not appointments name it.
eliminar_barbero_sin_fk(req, id) ==
    LET same == [barberos |-> barberos] IN
    IF req.method = "OPTIONS" THEN [resp |-> Preflight] @@ same
    ELSE LET usuario == verify_token_and_get_user(req.auth) IN
         IF usuario = 0 THEN [resp |-> E401] @@ same
         ELSE IF usuarios[usuario].rol # "admin" THEN [resp |-> E403] @@ same
         ELSE IF id \notin DOMAIN barberos
         THEN [resp |-> Resp(404, "Barbero no encontrado")] @@ same
         ELSE [resp |-> Resp(200, ""), barberos |-> Delete(barberos, id)]

\* Deleting a row whose appointments reference it: the ORM first sets their
\* NOT NULL foreign key to NULL, and the commit raises IntegrityError.
eliminar_barbero(req, id) ==
    LET same == [barberos |-> barberos] IN
    IF req.method = "OPTIONS" THEN [resp |-> Preflight] @@ same
    ELSE LET usuario == verify_token_and_get_user(req.auth) IN
         IF usuario = 0 THEN [resp |-> E401] @@ same
         ELSE IF usuarios[usuario].rol # "admin" THEN [resp |-> E403] @@ same
         ELSE IF id \notin DOMAIN barberos
         THEN [resp |-> Resp(404, "Barbero no encontrado")] @@ same
         ELSE IF \E c \in DOMAIN citas : citas[c].barbero_id = id
         THEN [resp |-> E500] @@ same
         ELSE [resp |-> Resp(200, ""), barberos |-> Delete(barberos, id)]

EliminarBarbero ==
    /\ last = Idle
    /\ \E req \in Reqs("DELETE", Headers), id \in IdInputs :
         LET r == eliminar_barbero(req, id) IN
         /\ barberos' = r.barberos
         /\ last' = Sent("eliminar_barbero", req.method, r.resp)
    /\ UNCHANGED <<usuarios, clientes, servicios, citas, seq, now, held, pend>>

(***************************************************************************)
(* Cliente                                                                 *)
(***************************************************************************)
Cliente_to_dict(id) ==
    LET c == clientes[id] IN
    [id |-> id, nombre |-> c.nombre, email |-> c.email, telefono |-> c.telefono,
     fecha_registro |-> strftime_dia(c.fecha_registro)]

\* Variant: the client list with the role check of the barber list.
get_clientes_solo_admin(req) ==
    IF req.method = "OPTIONS" THEN [resp |-> Preflight, body |-> <<>>]
    ELSE LET usuario == verify_token_and_get_user(req.auth) IN
         IF usuario = 0 THEN [resp |-> E401, body |-> <<>>]
         ELSE IF usuarios[usuario].rol # "admin" THEN [resp |-> E403, body |-> <<>>]
         ELSE [resp |-> Resp(200, ""),
               body |-> [id \in DOMAIN clientes |-> Cliente_to_dict(id)]]

get_clientes(req) ==
    IF req.method = "OPTIONS" THEN [resp |-> Preflight, body |-> <<>>]
    ELSE LET usuario == verify_token_and_get_user(req.auth) IN
         IF usuario = 0 THEN [resp |-> E401, body |-> <<>>]
         ELSE [resp |-> Resp(200, ""),
               body |-> [id \in DOMAIN clientes |-> Cliente_to_dict(id)]]

GetClientes ==
    /\ last = Idle
    /\ \E req \in Reqs("GET", Headers) :
         last' = Sent("get_clientes", req.method, get_clientes(req).resp)
    /\ UNCHANGED <<tablas, now, held, pend>>

CrearClienteBodies ==
    {[json |-> "null", nombre |-> AUSENTE, email |-> AUSENTE, telefono |-> AUSENTE],
     [json |-> "object", nombre |-> "  ", email |-> AUSENTE, telefono |-> AUSENTE],
     [json |-> "object", nombre |-> " Nuevo ", email |-> AUSENTE, telefono |-> AUSENTE]}

crear_cliente(req, data) ==
    LET same == [clientes |-> clientes, seq |-> seq] IN
    IF req.method = "OPTIONS" THEN [resp |-> Preflight] @@ same
    ELSE LET usuario == verify_token_and_get_user(req.auth) IN
         IF usuario = 0 THEN [resp |-> E401] @@ same
         ELSE IF data.json = "null" \/ data.nombre = AUSENTE \/ strip(data.nombre) = ""
         THEN [resp |-> Resp(400, "El nombre es requerido")] @@ same
         ELSE LET nuevo_cliente ==
                      [nombre |-> strip(data.nombre), email |-> strip(data.email),
                       telefono |-> strip(data.telefono), fecha_registro |-> now]
              IN IF email_duplicado(clientes, seq.clientes, nuevo_cliente.email)
                 THEN [resp |-> E500] @@ same
                 ELSE [resp |-> Resp(201, ""),
                       clientes |-> Insert(clientes, seq.clientes, nuevo_cliente),
                       seq |-> [seq EXCEPT !.clientes = @ + 1]]

CrearCliente ==
    /\ last = Idle
    /\ \E req \in Reqs("POST", Headers), data \in CrearClienteBodies :
         LET r == crear_cliente(req, data) IN
         /\ r.resp.status = 201 => seq.clientes <= MaxNuevos
         /\ clientes' = r.clientes
         /\ seq' = r.seq
         /\ last' = Sent("crear_cliente", req.method, r.resp)
    /\ UNCHANGED <<usuarios, barberos, servicios, citas, now, held, pend>>

ActualizarClienteBodies ==
    {[json |-> "null", nombre |-> AUSENTE, email |-> AUSENTE, telefono |-> AUSENTE],
     [json |-> "object", nombre |-> "Renombrado", email |-> AUSENTE,
      telefono |-> AUSENTE]}

actualizar_cliente(req, id, data) ==
    LET same == [clientes |-> clientes] IN
    IF req.method = "OPTIONS" THEN [resp |-> Preflight] @@ same
    ELSE LET usuario == verify_token_and_get_user(req.auth) IN
         IF usuario = 0 THEN [resp |-> E401] @@ same
         ELSE IF id \notin DOMAIN clientes
         THEN [resp |-> Resp(404, "Cliente no encontrado")] @@ same
         ELSE IF data.json = "null" THEN [resp |-> E500] @@ same
         ELSE LET c == clientes[id]
                  cliente ==
                      [c EXCEPT
                         !.nombre = IF data.nombre # AUSENTE THEN data.nombre ELSE @,
                         !.email = IF data.email # AUSENTE THEN data.email ELSE @,
                         !.telefono = IF data.telefono # AUSENTE THEN data.telefono
                                      ELSE @]
              IN IF email_duplicado(clientes, id, cliente.email)
                 THEN [resp |-> E500] @@ same
                 ELSE [resp |-> Resp(200, ""),
                       clientes |-> [clientes EXCEPT ![id] = cliente]]

ActualizarCliente ==
    /\ last = Idle
    /\ \E req \in Reqs("PUT", Headers), id \in IdInputs, data \in ActualizarClienteBodies :
         LET r == actualizar_cliente(req, id, data) IN
         /\ clientes' = r.clientes
         /\ last' = Sent("actualizar_cliente", req.method, r.resp)
    /\ UNCHANGED <<usuarios, barberos, servicios, citas, seq, now, held, pend>>

\* Deleting a client sets the nullable cliente_id of its appointments to NULL.
eliminar_cliente(req, id) ==
    LET same == [clientes |-> clientes, citas |-> citas] IN
    IF req.method = "OPTIONS" THEN [resp |-> Preflight] @@ same
    ELSE LET usuario == verify_token_and_get_user(req.auth) IN
         IF usuario = 0 THEN [resp |-> E401] @@ same
         ELSE IF id \notin DOMAIN clientes
         THEN [resp |-> Resp(404, "Cliente no encontrado")] @@ same
         ELSE [resp |-> Resp(200, ""),
               clientes |-> Delete(clientes, id),
               citas |-> [c \in DOMAIN citas |->
                            IF citas[c].cliente_id = id
                            THEN [citas[c] EXCEPT !.cliente_id = NAUSENTE]
                            ELSE citas[c]]]

EliminarCliente ==
    /\ last = Idle
    /\ \E req \in Reqs("DELETE", Headers), id \in IdInputs :
         LET r == eliminar_cliente(req, id) IN
         /\ clientes' = r.clientes
         /\ citas' = r.citas
         /\ last' = Sent("eliminar_cliente", req.method, r.resp)
    /\ UNCHANGED <<usuarios, barberos, servicios, seq, now, held, pend>>

(***************************************************************************)
(* Servicio                                                                *)
(***************************************************************************)
SeedServicios ==
    <<[nombre |-> "Corte de Cabello", precio |-> 15, descripcion |-> "Corte clasico"],
      [nombre |-> "Barba", precio |-> 10, descripcion |-> "Afeitado profesional"],
      [nombre |-> "Corte + Barba", precio |-> 23, descripcion |-> "Combo completo"],
      [nombre |-> "Lineas", precio |-> 8, descripcion |-> "Lineas de precision"]>>

NuevoServicio(nombre, precio, descripcion) ==
    [nombre |-> nombre, precio |-> precio, descripcion |-> descripcion,
     fecha_registro |-> now]

Servicio_to_dict(id) ==
    LET s == servicios[id] IN
    [id |-> id, nombre |-> s.nombre, precio |-> s.precio,
     descripcion |-> s.descripcion, fecha_registro |-> strftime_dia(s.fecha_registro)]

get_servicios(req) ==
    IF req.method = "OPTIONS" THEN [resp |-> Preflight, body |-> <<>>]
    ELSE LET usuario == verify_token_and_get_user(req.auth) IN
         IF usuario = 0 THEN [resp |-> E401, body |-> <<>>]
         ELSE IF usuarios[usuario].rol # "admin" THEN [resp |-> E403, body |-> <<>>]
         ELSE [resp |-> Resp(200, ""),
               body |-> [id \in DOMAIN servicios |-> Servicio_to_dict(id)]]

GetServicios ==
    /\ last = Idle
    /\ \E req \in Reqs("GET", Headers) :
         last' = Sent("get_servicios", req.method, get_servicios(req).resp)
    /\ UNCHANGED <<tablas, now, held, pend>>

CrearServicioBodies ==
    {[json |-> "null", nombre |-> AUSENTE, precio |-> NAUSENTE, descripcion |-> AUSENTE],
     [json |-> "object", nombre |-> "Tinte", precio |-> NAUSENTE,
      descripcion |-> AUSENTE],
     [json |-> "object", nombre |-> "Tinte", precio |-> 0, descripcion |-> AUSENTE],
     [json |-> "object", nombre |-> "Tinte", precio |-> 30, descripcion |-> AUSENTE]}

crear_servicio(req, data) ==
    LET same == [servicios |-> servicios, seq |-> seq] IN
    IF req.method = "OPTIONS" THEN [resp |-> Preflight] @@ same
    ELSE LET usuario == verify_token_and_get_user(req.auth) IN
         IF usuario = 0 THEN [resp |-> E401] @@ same
         ELSE IF usuarios[usuario].rol # "admin" THEN [resp |-> E403] @@ same
         ELSE IF data.json = "null" \/ data.nombre = AUSENTE \/ data.nombre = ""
                 \/ data.precio = NAUSENTE \/ data.precio = 0
         THEN [resp |-> Resp(400, "Nombre y precio son requeridos")] @@ same
         ELSE [resp |-> Resp(201, ""),
               servicios |->
                   Insert(servicios, seq.servicios,
                          NuevoServicio(data.nombre, data.precio,
                                        IF data.descripcion = AUSENTE THEN ""
                                        ELSE data.descripcion)),
               seq |-> [seq EXCEPT !.servicios = @ + 1]]

CrearServicio ==
    /\ last = Idle
    /\ \E req \in Reqs("POST", Headers), data \in CrearServicioBodies :
         LET r == crear_servicio(req, data) IN
         /\ r.resp.status = 201 => seq.servicios <= Len(SeedServicios) + MaxNuevos
         /\ servicios' = r.servicios
         /\ seq' = r.seq
         /\ last' = Sent("crear_servicio", req.method, r.resp)
    /\ UNCHANGED <<usuarios, barberos, clientes, citas, now, held, pend>>

ActualizarServicioBodies ==
    {[json |-> "null", nombre |-> AUSENTE, precio |-> NAUSENTE, descripcion |-> AUSENTE],
     [json |-> "object", nombre |-> AUSENTE, precio |-> 18, descripcion |-> AUSENTE]}

actualizar_servicio(req, id, data) ==
    LET same == [servicios |-> servicios] IN
    IF req.method = "OPTIONS" THEN [resp |-> Preflight] @@ same
    ELSE LET usuario == verify_token_and_get_user(req.auth) IN
         IF usuario = 0 THEN [resp |-> E401] @@ same
         ELSE IF usuarios[usuario].rol # "admin" THEN [resp |-> E403] @@ same
         ELSE IF id \notin DOMAIN servicios
         THEN [resp |-> Resp(404, "Servicio no encontrado")] @@ same
         ELSE IF data.json = "null" THEN [resp |-> E500] @@ same
         ELSE LET s == servicios[id]
                  servicio ==
                      [s EXCEPT
                         !.nombre = IF data.nombre # AUSENTE THEN data.nombre ELSE @,
                         !.precio = IF data.precio # NAUSENTE THEN data.precio ELSE @,
                         !.descripcion = IF data.descripcion # AUSENTE
                                         THEN data.descripcion ELSE @]
              IN [resp |-> Resp(200, ""),
                  servicios |-> [servicios EXCEPT ![id] = servicio]]

ActualizarServicio ==
    /\ last = Idle
    /\ \E req \in Reqs("PUT", Headers), id \in IdInputs,
          data \in ActualizarServicioBodies :
         LET r == actualizar_servicio(req, id, data) IN
         /\ servicios' = r.servicios
         /\ last' = Sent("actualizar_servicio", req.method, r.resp)
    /\ UNCHANGED <<usuarios, barberos, clientes, citas, seq, now, held, pend>>

\* eliminar_servicio without its role check.
eliminar_servicio_sin_rol(req, id) ==
    LET same == [servicios |-> servicios] IN
    IF req.method = "OPTIONS" THEN [resp |-> Preflight] @@ same
    ELSE LET usuario == verify_token_and_get_user(req.auth) IN
         IF usuario = 0 THEN [resp |-> E401] @@ same
         ELSE IF id \notin DOMAIN servicios
         THEN [resp |-> Resp(404, "Servicio no encontrado")] @@ same
         ELSE IF \E c \in DOMAIN citas : citas[c].servicio_id = id
         THEN [resp |-> E500] @@ same
         ELSE [resp |-> Resp(200, ""), servicios |-> Delete(servicios, id)]

eliminar_servicio(req, id) ==
    LET same == [servicios |-> servicios] IN
    IF req.method = "OPTIONS" THEN [resp |-> Preflight] @@ same
    ELSE LET usuario == verify_token_and_get_user(req.auth) IN
         IF usuario = 0 THEN [resp |-> E401] @@ same
         ELSE IF usuarios[usuario].rol # "admin" THEN [resp |-> E403] @@ same
         ELSE IF id \notin DOMAIN servicios
         THEN [resp |-> Resp(404, "Servicio no encontrado")] @@ same
         ELSE IF \E c \in DOMAIN citas : citas[c].servicio_id = id
         THEN [resp |-> E500] @@ same
         ELSE [resp |-> Resp(200, ""), servicios |-> Delete(servicios, id)]

EliminarServicio ==
    /\ last = Idle
    /\ \E req \in Reqs("DELETE", Headers), id \in IdInputs :
         LET r == eliminar_servicio(req, id) IN
         /\ servicios' = r.servicios
         /\ last' = Sent("eliminar_servicio", req.method, r.resp)
    /\ UNCHANGED <<usuarios, barberos, clientes, citas, seq, now, held, pend>>

(***************************************************************************)
(* Cita                                                                    *)
(***************************************************************************)
\* None when a referenced barber or service row is missing: to_dict then
\* raises AttributeError on None.nombre.
Cita_to_dict_ok(id) ==
    citas[id].barbero_id \in DOMAIN barberos /\ citas[id].servicio_id \in DOMAIN servicios

Cita_to_dict(id) ==
    LET c == citas[id] IN
    [id |-> id,
     cliente |-> IF c.cliente_id \in DOMAIN clientes THEN clientes[c.cliente_id].nombre
                 ELSE "Cliente no registrado",
     cliente_id |-> c.cliente_id,
     barbero |-> barberos[c.barbero_id].nombre,
     barbero_id |-> c.barbero_id,
     servicio |-> servicios[c.servicio_id].nombre,
     servicio_id |-> c.servicio_id,
     precio |-> c.precio,
     fecha |-> c.fecha,
     notas |-> c.notas]

\* The body is the appointments by id; the order of the list is not modelled.
get_citas(req) ==
    IF req.method = "OPTIONS" THEN [resp |-> Preflight, body |-> <<>>]
    ELSE LET usuario == verify_token_and_get_user(req.auth) IN
         IF usuario = 0 THEN [resp |-> E401, body |-> <<>>]
         ELSE IF \E id \in DOMAIN citas : ~Cita_to_dict_ok(id)
         THEN [resp |-> Resp(500, "'NoneType' object has no attribute 'nombre'"),
               body |-> <<>>]
         ELSE [resp |-> Resp(200, ""),
               body |-> [id \in DOMAIN citas |-> Cita_to_dict(id)]]

GetCitas ==
    /\ last = Idle
    /\ \E req \in Reqs("GET", Headers) :
         last' = Sent("get_citas", req.method, get_citas(req).resp)
    /\ UNCHANGED <<tablas, now, held, pend>>

CitaBody(b, s, c, p) ==
    [json |-> "object", barbero_id |-> b, servicio_id |-> s, cliente_id |-> c,
     precio |-> p, notas |-> AUSENTE]

CrearCitaBodies ==
    {[json |-> "null", barbero_id |-> NAUSENTE, servicio_id |-> NAUSENTE,
      cliente_id |-> NAUSENTE, precio |-> NAUSENTE, notas |-> AUSENTE]}
    \cup {CitaBody(b, s, c, 15) : b \in {0, 1}, s \in {0, 1}, c \in {NAUSENTE, 0, 1}}
    \cup {CitaBody(NAUSENTE, 1, NAUSENTE, 15), CitaBody(1, NAUSENTE, NAUSENTE, 15),
          CitaBody(1, 1, NAUSENTE, NAUSENTE), CitaBody(0, 1, 1, NAUSENTE)}

crear_cita(req, data) ==
    LET same == [citas |-> citas, seq |-> seq] IN
    IF req.method = "OPTIONS" THEN [resp |-> Preflight] @@ same
    ELSE LET usuario == verify_token_and_get_user(req.auth) IN
         IF usuario = 0 THEN [resp |-> E401] @@ same
         ELSE IF data.json = "null" THEN [resp |-> E500] @@ same
         ELSE IF data.barbero_id = NAUSENTE \/ data.servicio_id = NAUSENTE
                 \/ data.precio = NAUSENTE
         THEN [resp |-> Resp(400, "Datos incompletos. Barbero, Servicio y Precio son requeridos")]
              @@ same
         ELSE IF data.barbero_id \notin DOMAIN barberos
         THEN [resp |-> Resp(404, "Barbero no encontrado")] @@ same
         ELSE IF data.servicio_id \notin DOMAIN servicios
         THEN [resp |-> Resp(404, "Servicio no encontrado")] @@ same
         ELSE IF data.cliente_id # NAUSENTE /\ data.cliente_id # 0
                 /\ data.cliente_id \notin DOMAIN clientes
         THEN [resp |-> Resp(404, "Cliente no encontrado")] @@ same
         ELSE LET cliente_id == IF data.cliente_id # NAUSENTE /\ data.cliente_id # 0
                                THEN data.cliente_id ELSE NAUSENTE
                  nueva_cita ==
                      [cliente_id |-> cliente_id,
                       barbero_id |-> data.barbero_id,
                       servicio_id |-> data.servicio_id,
                       precio |-> data.precio,
                       fecha |-> now,
                       notas |-> IF data.notas = AUSENTE THEN "" ELSE data.notas]
              IN [resp |-> Resp(201, ""),
                  citas |-> Insert(citas, seq.citas, nueva_cita),
                  seq |-> [seq EXCEPT !.citas = @ + 1]]

CrearCita ==
    /\ last = Idle
    /\ \E req \in Reqs("POST", Headers), data \in CrearCitaBodies :
         LET r == crear_cita(req, data) IN
         /\ r.resp.status = 201 => seq.citas <= MaxNuevos
         /\ citas' = r.citas
         /\ seq' = r.seq
         /\ last' = Sent("crear_cita", req.method, r.resp)
    /\ UNCHANGED <<usuarios, barberos, clientes, servicios, now, held, pend>>

\* datetime.fromisoformat on the strings the environment sends: the time in
\* hours, or -1 for ValueError.
fromisoformat(s) == IF s = "1970-01-03T00:00:00" THEN 48 ELSE -1

CitaUpdate(c, b, s, p, n, f) ==
    [json |-> "object", cliente_id |-> c, barbero_id |-> b, servicio_id |-> s,
     precio |-> p, notas |-> n, fecha |-> f]

ActualizarCitaBodies ==
    {[json |-> "null", cliente_id |-> NAUSENTE, barbero_id |-> NAUSENTE,
      servicio_id |-> NAUSENTE, precio |-> NAUSENTE, notas |-> AUSENTE,
      fecha |-> AUSENTE],
     CitaUpdate(1, NAUSENTE, NAUSENTE, NAUSENTE, AUSENTE, AUSENTE),
     CitaUpdate(0, 2, 2, 20, "sin barba", "1970-01-03T00:00:00"),
     CitaUpdate(0, 0, NAUSENTE, NAUSENTE, AUSENTE, AUSENTE),
     CitaUpdate(NAUSENTE, 2, 0, NAUSENTE, AUSENTE, AUSENTE),
     CitaUpdate(NAUSENTE, NAUSENTE, NAUSENTE, 20, AUSENTE, "manana")}

\* Variant: every assignment to the row is stored at once (autocommit), so
\* an early return leaves the assignments made before it.
actualizar_cita_autocommit(req, id, data) ==
    LET same == [citas |-> citas] IN
    IF req.method = "OPTIONS" THEN [resp |-> Preflight] @@ same
    ELSE LET usuario == verify_token_and_get_user(req.auth) IN
         IF usuario = 0 THEN [resp |-> E401] @@ same
         ELSE IF id \notin DOMAIN citas
         THEN [resp |-> Resp(404, "Cita no encontrada")] @@ same
         ELSE IF data.json = "null" THEN [resp |-> E500] @@ same
         ELSE IF data.cliente_id # NAUSENTE /\ data.cliente_id # 0
                 /\ data.cliente_id \notin DOMAIN clientes
         THEN [resp |-> Resp(404, "Cliente no encontrado")] @@ same
         ELSE LET s1 == [citas[id] EXCEPT
                           !.cliente_id = IF data.cliente_id = NAUSENTE THEN @
                                          ELSE IF data.cliente_id # 0 THEN data.cliente_id
                                          ELSE NAUSENTE]
                  s2 == [s1 EXCEPT !.barbero_id = IF data.barbero_id # NAUSENTE
                                                  THEN data.barbero_id ELSE @]
                  s3 == [s2 EXCEPT !.servicio_id = IF data.servicio_id # NAUSENTE
                                                   THEN data.servicio_id ELSE @]
                  s4 == [s3 EXCEPT
                           !.precio = IF data.precio # NAUSENTE THEN data.precio ELSE @,
                           !.notas = IF data.notas # AUSENTE THEN data.notas ELSE @]
                  s5 == [s4 EXCEPT !.fecha = IF data.fecha # AUSENTE
                                             THEN fromisoformat(data.fecha) ELSE @]
              IN IF data.barbero_id # NAUSENTE /\ data.barbero_id \notin DOMAIN barberos
                 THEN [resp |-> Resp(404, "Barbero no encontrado"),
                       citas |-> [citas EXCEPT ![id] = s1]]
                 ELSE IF data.servicio_id # NAUSENTE
                         /\ data.servicio_id \notin DOMAIN servicios
                 THEN [resp |-> Resp(404, "Servicio no encontrado"),
                       citas |-> [citas EXCEPT ![id] = s2]]
                 ELSE IF data.fecha # AUSENTE /\ fromisoformat(data.fecha) = -1
                 THEN [resp |-> Resp(400, "Formato de fecha invalido"),
                       citas |-> [citas EXCEPT ![id] = s4]]
                 ELSE [resp |-> Resp(200, ""), citas |-> [citas EXCEPT ![id] = s5]]

\* The assignments made before a failing check stay in the session, which is
\* discarded without a commit: the stored row changes only on 200.
actualizar_cita(req, id, data) ==
    LET same == [citas |-> citas] IN
    IF req.method = "OPTIONS" THEN [resp |-> Preflight] @@ same
    ELSE LET usuario == verify_token_and_get_user(req.auth) IN
         IF usuario = 0 THEN [resp |-> E401] @@ same
         ELSE IF id \notin DOMAIN citas
         THEN [resp |-> Resp(404, "Cita no encontrada")] @@ same
         ELSE IF data.json = "null" THEN [resp |-> E500] @@ same
         ELSE IF data.cliente_id # NAUSENTE /\ data.cliente_id # 0
                 /\ data.cliente_id \notin DOMAIN clientes
         THEN [resp |-> Resp(404, "Cliente no encontrado")] @@ same
         ELSE IF data.barbero_id # NAUSENTE /\ data.barbero_id \notin DOMAIN barberos
         THEN [resp |-> Resp(404, "Barbero no encontrado")] @@ same
         ELSE IF data.servicio_id # NAUSENTE /\ data.servicio_id \notin DOMAIN servicios
         THEN [resp |-> Resp(404, "Servicio no encontrado")] @@ same
         ELSE IF data.fecha # AUSENTE /\ fromisoformat(data.fecha) = -1
         THEN [resp |-> Resp(400, "Formato de fecha invalido")] @@ same
         ELSE LET c == citas[id]
                  cita ==
                      [c EXCEPT
                         !.cliente_id = IF data.cliente_id = NAUSENTE THEN @
                                        ELSE IF data.cliente_id # 0 THEN data.cliente_id
                                        ELSE NAUSENTE,
                         !.barbero_id = IF data.barbero_id # NAUSENTE
                                        THEN data.barbero_id ELSE @,
                         !.servicio_id = IF data.servicio_id # NAUSENTE
                                         THEN data.servicio_id ELSE @,
                         !.precio = IF data.precio # NAUSENTE THEN data.precio ELSE @,
                         !.notas = IF data.notas # AUSENTE THEN data.notas ELSE @,
                         !.fecha = IF data.fecha # AUSENTE THEN fromisoformat(data.fecha)
                                   ELSE @]
              IN [resp |-> Resp(200, ""), citas |-> [citas EXCEPT ![id] = cita]]

ActualizarCita ==
    /\ last = Idle
    /\ \E req \in Reqs("PUT", Headers), id \in IdInputs, data \in ActualizarCitaBodies :
         LET r == actualizar_cita(req, id, data) IN
         /\ citas' = r.citas
         /\ last' = Sent("actualizar_cita", req.method, r.resp)
    /\ UNCHANGED <<usuarios, barberos, clientes, servicios, seq, now, held, pend>>

\* Variant: the appointment is looked up before the token is verified.
eliminar_cita_busca_primero(req, id) ==
    LET same == [citas |-> citas] IN
    IF req.method = "OPTIONS" THEN [resp |-> Preflight] @@ same
    ELSE IF id \notin DOMAIN citas
    THEN [resp |-> Resp(404, "Cita no encontrada")] @@ same
    ELSE LET usuario == verify_token_and_get_user(req.auth) IN
         IF usuario = 0 THEN [resp |-> E401] @@ same
         ELSE [resp |-> Resp(200, ""), citas |-> Delete(citas, id)]

eliminar_cita(req, id) ==
    LET same == [citas |-> citas] IN
    IF req.method = "OPTIONS" THEN [resp |-> Preflight] @@ same
    ELSE LET usuario == verify_token_and_get_user(req.auth) IN
         IF usuario = 0 THEN [resp |-> E401] @@ same
         ELSE IF id \notin DOMAIN citas
         THEN [resp |-> Resp(404, "Cita no encontrada")] @@ same
         ELSE [resp |-> Resp(200, ""), citas |-> Delete(citas, id)]

EliminarCita ==
    /\ last = Idle
    /\ \E req \in Reqs("DELETE", Headers), id \in IdInputs :
         LET r == eliminar_cita(req, id) IN
         /\ citas' = r.citas
         /\ last' = Sent("eliminar_cita", req.method, r.resp)
    /\ UNCHANGED <<usuarios, barberos, clientes, servicios, seq, now, held, pend>>

(***************************************************************************)
(* General routes                                                          *)
(***************************************************************************)
health(req) == IF req.method = "OPTIONS" THEN Preflight ELSE Resp(200, "")

Health ==
    /\ last = Idle
    /\ \E req \in Reqs("GET", {NoHeader}) :
         last' = Sent("health", req.method, health(req))
    /\ UNCHANGED <<tablas, now, held, pend>>

\* SELECT 1 succeeds while the datastore answers.
health_pool(req) == IF req.method = "OPTIONS" THEN Preflight ELSE Resp(200, "")

HealthPool ==
    /\ last = Idle
    /\ \E req \in Reqs("GET", {NoHeader}) :
         last' = Sent("health_pool", req.method, health_pool(req))
    /\ UNCHANGED <<tablas, now, held, pend>>

SemillaBarbero(b) == NuevoBarbero(b.nombre, b.email, b.telefono, b.comision)

SemillaServicio(s) == NuevoServicio(s.nombre, s.precio, s.descripcion)

\* db.session.add_all of the seed rows: they take the ids first, first+1, ...
SembrarBarberos(first) ==
    [i \in first..(first + Len(SeedBarberos) - 1) |->
        SemillaBarbero(SeedBarberos[i - first + 1])]

SembrarServicios(first) ==
    [i \in first..(first + Len(SeedServicios) - 1) |->
        SemillaServicio(SeedServicios[i - first + 1])]

\* Variant: the reseed without the early return for OPTIONS.
init_data_sin_options(req) ==
    [resp |-> Resp(200, ""),
     barberos |-> SembrarBarberos(seq.barberos),
     servicios |-> SembrarServicios(seq.servicios),
     clientes |-> <<>>,
     citas |-> <<>>,
     seq |-> [seq EXCEPT !.barberos = @ + Len(SeedBarberos),
                         !.servicios = @ + Len(SeedServicios)]]

\* Wipes the four entity tables and inserts the seed rows; asks for no token.
init_data(req) ==
    IF req.method = "OPTIONS"
    THEN [resp |-> Preflight, barberos |-> barberos, servicios |-> servicios,
          clientes |-> clientes, citas |-> citas, seq |-> seq]
    ELSE [resp |-> Resp(200, ""),
          barberos |-> SembrarBarberos(seq.barberos),
          servicios |-> SembrarServicios(seq.servicios),
          clientes |-> <<>>,
          citas |-> <<>>,
          seq |-> [seq EXCEPT !.barberos = @ + Len(SeedBarberos),
                              !.servicios = @ + Len(SeedServicios)]]

\* The reseed takes its ids from the capped sequences: it runs while they are
\* still within reach of the create requests.
InitData ==
    /\ last = Idle
    /\ \E req \in Reqs("GET", {NoHeader}) \cup Reqs("POST", {NoHeader}) :
         LET r == init_data(req) IN
         /\ req.method # "OPTIONS" =>
              /\ seq.barberos <= Len(SeedBarberos) + MaxNuevos + 1
              /\ seq.servicios <= Len(SeedServicios) + MaxNuevos + 1
         /\ barberos' = r.barberos
         /\ servicios' = r.servicios
         /\ clientes' = r.clientes
         /\ citas' = r.citas
         /\ seq' = r.seq
         /\ last' = Sent("init_data", req.method, r.resp)
    /\ UNCHANGED <<usuarios, now, held, pend>>

(***************************************************************************)
(* Datastore failures.  A query or a commit of a handler raises when the   *)
(* connection to the datastore is lost; the session of the request is      *)
(* discarded, so nothing that was not committed is stored.                 *)
(***************************************************************************)
\* str(error) of the exceptions a lost or unreachable datastore raises.
ErroresBD ==
    {"SSL SYSCALL error: EOF detected",
     "server closed the connection unexpectedly",
     "could not translate host name"}

\* 'EOF detected' in str(error) or 'connection' in str(error).lower()
menciona_conexion(error) ==
    error \in {"SSL SYSCALL error: EOF detected",
               "server closed the connection unexpectedly"}

handle_db_error(error) ==
    IF menciona_conexion(error)
    THEN Resp(503, "Conexion temporal a BD - reintentar")
    ELSE E500

RutasAdmin ==
    {"get_barberos", "crear_barbero", "actualizar_barbero", "eliminar_barbero",
     "get_servicios", "crear_servicio", "actualizar_servicio", "eliminar_servicio"}

RutasListado == {"get_barberos", "get_clientes", "get_servicios", "get_citas"}

RutasCrear == {"crear_barbero", "crear_cliente", "crear_servicio"}

RutasPorId ==
    {"actualizar_barbero", "eliminar_barbero", "actualizar_cliente", "eliminar_cliente",
     "actualizar_servicio", "eliminar_servicio", "actualizar_cita", "eliminar_cita"}

RutasGate ==
    {"get_current_usuario", "logout", "crear_cita"}
    \cup RutasListado \cup RutasCrear \cup RutasPorId

\* The routes that call the datastore (health does not).
RutasBD == RutasGate \cup {"registro", "login", "health_pool", "init_data"}

\* The datastore calls of a handler, in the order it makes them: "gate" is
\* Usuario.query.get in verify_token_and_get_user, "consulta" a list query
\* or a lookup, "commit" db.session.commit(); init_data commits three times
\* (the deletes, the barbers, the services).
PuntosBD(ruta) ==
    IF ruta \in {"get_current_usuario", "logout"} THEN {"gate"}
    ELSE IF ruta \in RutasListado THEN {"gate", "consulta"}
    ELSE IF ruta \in RutasCrear THEN {"gate", "commit"}
    ELSE IF ruta \in RutasPorId \cup {"crear_cita"} THEN {"gate", "consulta", "commit"}
    ELSE IF ruta = "registro" THEN {"consulta", "commit"}
    ELSE IF ruta = "login" THEN {"consulta"}
    ELSE IF ruta = "health_pool" THEN {"consulta"}
    ELSE {"borrado", "barberos", "servicios"}

\* The call is made inside a try block of the handler, whose except clause
\* answers 500 with str(e).
Capturado(ruta, punto) ==
    \/ ruta \in RutasListado /\ punto = "consulta"
    \/ ruta \in {"health_pool", "init_data"}

\* The response of a request whose datastore call at punto raises error.
falla_bd(ruta, punto, error) ==
    IF Capturado(ruta, punto) THEN Resp(500, error) ELSE handle_db_error(error)

Metodo(ruta) ==
    IF ruta \in RutasListado \cup {"get_current_usuario", "health_pool"} THEN "GET"
    ELSE IF ruta \in {"actualizar_barbero", "actualizar_cliente", "actualizar_servicio",
                      "actualizar_cita"} THEN "PUT"
    ELSE IF ruta \in {"eliminar_barbero", "eliminar_cliente", "eliminar_servicio",
                      "eliminar_cita"} THEN "DELETE"
    ELSE "POST"

\* The table a route with an id in its URL looks the row up in.
TablaDe(ruta) ==
    IF ruta \in {"actualizar_barbero", "eliminar_barbero"} THEN barberos
    ELSE IF ruta \in {"actualizar_cliente", "eliminar_cliente"} THEN clientes
    ELSE IF ruta \in {"actualizar_servicio", "eliminar_servicio"} THEN servicios
    ELSE citas

\* Some request with header h makes the handler reach the call: it passes
\* the checks the handler makes before it.
Alcanza(ruta, punto, h) ==
    IF ruta \notin RutasGate THEN TRUE
    ELSE IF punto = "gate" THEN verificar_token(get_token_from_request(h)) # 0
    ELSE LET usuario == verify_token_and_get_user(h) IN
         /\ usuario # 0
         /\ ruta \in RutasAdmin => usuarios[usuario].rol = "admin"
         /\ (ruta \in RutasPorId /\ punto = "commit") => DOMAIN TablaDe(ruta) # {}
         /\ (ruta = "crear_cita" /\ punto = "commit") =>
              (DOMAIN barberos # {} /\ DOMAIN servicios # {})

\* The tables a failed request leaves: what it committed before the call
\* that raised.  Only init_data commits more than once.
tablas_tras_falla(ruta, punto) ==
    LET same == [barberos |-> barberos, servicios |-> servicios,
                 clientes |-> clientes, citas |-> citas, seq |-> seq]
    IN IF ruta # "init_data" \/ punto = "borrado" THEN same
       ELSE IF punto = "barberos"
       THEN [barberos |-> <<>>, servicios |-> <<>>, clientes |-> <<>>,
             citas |-> <<>>, seq |-> seq]
       ELSE [barberos |-> SembrarBarberos(seq.barberos), servicios |-> <<>>,
             clientes |-> <<>>, citas |-> <<>>,
             seq |-> [seq EXCEPT !.barberos = @ + Len(SeedBarberos)]]

FallaBD ==
    /\ last = Idle
    /\ \E ruta \in RutasBD, h \in Headers, error \in ErroresBD :
         \E punto \in PuntosBD(ruta) :
           LET t == tablas_tras_falla(ruta, punto) IN
           /\ Alcanza(ruta, punto, h)
           /\ t.seq # seq => seq.barberos <= Len(SeedBarberos) + MaxNuevos + 1
           /\ barberos' = t.barberos
           /\ servicios' = t.servicios
           /\ clientes' = t.clientes
           /\ citas' = t.citas
           /\ seq' = t.seq
           /\ last' = Sent(ruta, Metodo(ruta), falla_bd(ruta, punto, error))
    /\ UNCHANGED <<usuarios, now, held, pend>>

(***************************************************************************)
(* Concurrent registrations.  The server answers requests on several       *)
(* workers; a registro running on one of them queries for the email        *)
(* (line 248) and commits the insert (line 258) in two datastore calls,    *)
(* between which another worker may run.                                   *)
(***************************************************************************)
Workers == {1, 2}

\* A worker that handles no registro.
Libre ==
    [pc |-> "libre", email |-> AUSENTE, password |-> AUSENTE, nombre |-> AUSENTE,
     rol |-> AUSENTE, visto |-> FALSE, resp |-> Resp(0, "")]

\* The registrations sent concurrently: complete bodies.
RegistrosEnCurso ==
    {d \in RegistroBodies :
        d.json = "object" /\ d.password # AUSENTE /\ d.nombre # AUSENTE}

\* registro up to the email query: the worker answers 409 when the query
\* finds the email, and otherwise goes on to the insert.
RegistroConsulta(p) ==
    /\ pend[p].pc = "libre"
    /\ \E d \in RegistrosEnCurso :
         LET visto == Usuario_by_email(d.email) # 0 IN
         pend' = [pend EXCEPT ![p] =
                    [pc |-> IF visto THEN "respondido" ELSE "consultado",
                     email |-> d.email, password |-> d.password,
                     nombre |-> d.nombre, rol |-> d.rol, visto |-> visto,
                     resp |-> IF visto THEN Resp(409, "El email ya esta registrado")
                              ELSE Resp(0, "")]]
    /\ UNCHANGED <<tablas, now, held, last>>

\* registro from the insert on.  The unique index on usuarios.email rejects
\* the commit when a row with the email was committed since the query:
\* IntegrityError, which no handler catches but handle_db_error.
RegistroCommit(p) ==
    /\ pend[p].pc = "consultado"
    /\ \E salt \in Salts :
         LET d == pend[p]
             id == Len(usuarios) + 1
             nuevo_usuario ==
                 [email |-> d.email,
                  password_hash |-> generate_password_hash(d.password, salt),
                  nombre |-> d.nombre,
                  rol |-> IF d.rol = AUSENTE THEN "barbero" ELSE d.rol,
                  estado |-> "activo",
                  fecha_registro |-> now]
             tabla == Append(usuarios, nuevo_usuario)
         IN IF \E i \in DOMAIN usuarios : usuarios[i].email = d.email
            THEN /\ usuarios' = usuarios
                 /\ pend' = [pend EXCEPT ![p].pc = "respondido",
                                         ![p].resp = handle_db_error("duplicate key value violates unique constraint")]
            ELSE /\ usuarios' = tabla
                 /\ pend' = [pend EXCEPT
                               ![p].pc = "respondido",
                               ![p].resp = [status |-> 201, error |-> "",
                                            token |-> generar_token(id),
                                            usuario |-> Usuario_to_dict(tabla, id)]]
    /\ UNCHANGED <<barberos, clientes, servicios, citas, seq, now, held, last>>

\* The client receives the answer; the worker is free again.
RegistroEntrega(p) ==
    /\ pend[p].pc = "respondido"
    /\ pend' = [pend EXCEPT ![p] = Libre]
    /\ UNCHANGED <<tablas, now, held, last>>

RegistroConcurrente ==
    \E p \in Workers : RegistroConsulta(p) \/ RegistroCommit(p) \/ RegistroEntrega(p)

(***************************************************************************)
(* The environment: the client receives the response, and time passes.     *)
(***************************************************************************)
Deliver ==
    /\ last # Idle
    /\ last' = Idle
    /\ UNCHANGED <<tablas, now, held, pend>>

\* The client keeps the token the response carries.
Guardar ==
    /\ last # Idle
    /\ last.token # NoJwt
    /\ held' = [token |-> last.token, usuario |-> last.usuario]
    /\ last' = Idle
    /\ UNCHANGED <<tablas, now, pend>>

Tick ==
    /\ last = Idle
    /\ now < MaxTicks * TickHours
    /\ now' = now + TickHours
    /\ UNCHANGED <<tablas, held, last, pend>>

(***************************************************************************)
(* Startup (the app context block at the end of app.py) on an empty        *)
(* database.                                                               *)
(***************************************************************************)
Init ==
    /\ now = 0
    /\ usuarios = <<[email |-> admin_email,
                     password_hash |-> generate_password_hash(admin_password, "s1"),
                     nombre |-> "Administrador",
                     rol |-> "admin",
                     estado |-> "activo",
                     fecha_registro |-> 0]>>
    /\ barberos = SembrarBarberos(1)
    /\ servicios = SembrarServicios(1)
    /\ clientes = <<>>
    /\ citas = <<>>
    /\ seq = [barberos |-> Len(SeedBarberos) + 1, servicios |-> Len(SeedServicios) + 1,
              clientes |-> 1, citas |-> 1]
    /\ held = [token |-> NoJwt, usuario |-> NoUsuario]
    /\ last = Idle
    /\ pend = [p \in Workers |-> Libre]

NextAuth == Registro \/ Login \/ GetCurrentUsuario \/ Logout

NextBarberos == GetBarberos \/ CrearBarbero \/ ActualizarBarbero \/ EliminarBarbero

NextClientes == GetClientes \/ CrearCliente \/ ActualizarCliente \/ EliminarCliente

NextServicios == GetServicios \/ CrearServicio \/ ActualizarServicio \/ EliminarServicio

NextCitas == GetCitas \/ CrearCita \/ ActualizarCita \/ EliminarCita

NextGeneral == Health \/ HealthPool \/ InitData

Next ==
    \/ NextAuth
    \/ NextBarberos
    \/ NextClientes
    \/ NextServicios
    \/ NextCitas
    \/ NextGeneral
    \/ RegistroConcurrente
    \/ FallaBD
    \/ Deliver
    \/ Guardar
    \/ Tick

\* Every route, every client step and the clock.  Its state space is the
\* product of the slices below, which are the ones small enough to enumerate.
Spec == Init /\ [][Next]_vars

\* The session routes, with the clock: users register and log in, tokens are
\* kept and expire.
SpecAuth ==
    Init /\ [][NextAuth \/ Health \/ HealthPool \/ Deliver \/ Guardar \/ Tick]_vars

\* The administration of barbers and services by users of both roles, and the
\* four list routes over the clients and appointments that users create.
SpecAdmin ==
    Init /\ [][Registro \/ NextBarberos \/ NextServicios \/ GetClientes \/ GetCitas
               \/ CrearCliente \/ EliminarCliente \/ CrearCita \/ InitData
               \/ Deliver]_vars

\* Every route behind the gate and the general routes, with the users of
\* startup.
SpecRutas ==
    Init /\ [][GetCurrentUsuario \/ Logout \/ NextBarberos \/ NextClientes
               \/ NextServicios \/ NextCitas \/ NextGeneral \/ Deliver]_vars

\* Registrations on two workers at once, with logins and the clock.
SpecConcurrente ==
    Init /\ [][RegistroConcurrente \/ Login \/ Deliver \/ Tick]_vars

\* Requests during which the datastore fails, among the requests that
\* register users, create clients and appointments and reseed the tables.
SpecFallas ==
    Init /\ [][FallaBD \/ Registro \/ CrearCliente \/ CrearCita \/ InitData
               \/ Deliver]_vars

(***************************************************************************)
(* Vocabulary of the properties.                                           *)
(***************************************************************************)
\* The stored user a header's token identifies while it is correctly signed
\* and unexpired; 0 when there is none.
Resuelve(h) ==
    IF /\ h.kind = "bearer"
       /\ h.jwt.key = SECRET_KEY
       /\ h.jwt.exp > now
       /\ h.jwt.usuario_id \in 1..Len(usuarios)
    THEN h.jwt.usuario_id
    ELSE 0

\* A request arrives: the server handles requests one at a time.
Llega == last = Idle

R(opt, method, h) == [method |-> IF opt THEN "OPTIONS" ELSE method, auth |-> h]

Out(ruta, resp, intacto) == [ruta |-> ruta, resp |-> resp, intacto |-> intacto]

\* Every answer the routes behind the gate give to header h, over the bodies
\* and ids of the model, each with whether it leaves the tables as they are.
\* With opt the requests are OPTIONS requests.
Protegidas(opt, h) ==
    {Out("get_current_usuario", get_current_usuario(R(opt, "GET", h)), TRUE),
     Out("logout", logout(R(opt, "POST", h)), TRUE),
     Out("get_barberos", get_barberos(R(opt, "GET", h)).resp, TRUE),
     Out("get_clientes", get_clientes(R(opt, "GET", h)).resp, TRUE),
     Out("get_servicios", get_servicios(R(opt, "GET", h)).resp, TRUE),
     Out("get_citas", get_citas(R(opt, "GET", h)).resp, TRUE)}
    \cup {LET r == crear_barbero(R(opt, "POST", h), d) IN
          Out("crear_barbero", r.resp, r.barberos = barberos /\ r.seq = seq) :
            d \in CrearBarberoBodies}
    \cup {LET r == actualizar_barbero(R(opt, "PUT", h), x[1], x[2]) IN
          Out("actualizar_barbero", r.resp, r.barberos = barberos) :
            x \in IdInputs \X ActualizarBarberoBodies}
    \cup {LET r == eliminar_barbero(R(opt, "DELETE", h), id) IN
          Out("eliminar_barbero", r.resp, r.barberos = barberos) : id \in IdInputs}
    \cup {LET r == crear_cliente(R(opt, "POST", h), d) IN
          Out("crear_cliente", r.resp, r.clientes = clientes /\ r.seq = seq) :
            d \in CrearClienteBodies}
    \cup {LET r == actualizar_cliente(R(opt, "PUT", h), x[1], x[2]) IN
          Out("actualizar_cliente", r.resp, r.clientes = clientes) :
            x \in IdInputs \X ActualizarClienteBodies}
    \cup {LET r == eliminar_cliente(R(opt, "DELETE", h), id) IN
          Out("eliminar_cliente", r.resp, r.clientes = clientes /\ r.citas = citas) :
            id \in IdInputs}
    \cup {LET r == crear_servicio(R(opt, "POST", h), d) IN
          Out("crear_servicio", r.resp, r.servicios = servicios /\ r.seq = seq) :
            d \in CrearServicioBodies}
    \cup {LET r == actualizar_servicio(R(opt, "PUT", h), x[1], x[2]) IN
          Out("actualizar_servicio", r.resp, r.servicios = servicios) :
            x \in IdInputs \X ActualizarServicioBodies}
    \cup {LET r == eliminar_servicio(R(opt, "DELETE", h), id) IN
          Out("eliminar_servicio", r.resp, r.servicios = servicios) : id \in IdInputs}
    \cup {LET r == crear_cita(R(opt, "POST", h), d) IN
          Out("crear_cita", r.resp, r.citas = citas /\ r.seq = seq) :
            d \in CrearCitaBodies}
    \cup {LET r == actualizar_cita(R(opt, "PUT", h), x[1], x[2]) IN
          Out("actualizar_cita", r.resp, r.citas = citas) :
            x \in IdInputs \X ActualizarCitaBodies}
    \cup {LET r == eliminar_cita(R(opt, "DELETE", h), id) IN
          Out("eliminar_cita", r.resp, r.citas = citas) : id \in IdInputs}

\* The same for the routes that ask for no token.
Publicas(opt, h) ==
    {Out("login", login(R(opt, "POST", h), d), TRUE) : d \in LoginBodies}
    \cup {LET r == registro(R(opt, "POST", h), x[1], x[2]) IN
          Out("registro", r.resp, r.usuarios = usuarios) :
            x \in RegistroBodies \X Salts}
    \cup {Out("health", health(R(opt, "GET", h)), TRUE),
          Out("health_pool", health_pool(R(opt, "GET", h)), TRUE)}
    \cup {LET r == init_data(R(opt, m, h)) IN
          Out("init_data", r.resp,
              /\ r.barberos = barberos /\ r.servicios = servicios
              /\ r.clientes = clientes /\ r.citas = citas /\ r.seq = seq) :
            m \in {"GET", "POST"}}

AdminMutaciones ==
    {"crear_barbero", "actualizar_barbero", "eliminar_barbero",
     "crear_servicio", "actualizar_servicio", "eliminar_servicio"}

(***************************************************************************)
(* C1: role gate of the admin-only mutations.                              *)
(***************************************************************************)
\* C1: a POST, PUT or DELETE on /api/barberos or /api/servicios whose token
\* resolves to a user with rol other than 'admin' is answered 403, whatever
\* the body or the id, and leaves the barber and service tables unchanged.
C1_RoleGate ==
    Llega =>
      \A h \in Headers :
        (Resuelve(h) # 0 /\ usuarios[Resuelve(h)].rol # "admin") =>
          \A o \in Protegidas(FALSE, h) :
            o.ruta \in AdminMutaciones => (o.resp = E403 /\ o.intacto)

\* A non-admin user is stored and a barber creation has been answered 403.
C1_Witness ==
    /\ \E i \in DOMAIN usuarios : usuarios[i].rol # "admin"
    /\ last.op = "crear_barbero"
    /\ last.method = "POST"
    /\ last.status = 403

(***************************************************************************)
(* C2: the gate comes first.                                               *)
(***************************************************************************)
\* C2: a request to a route behind the gate whose header carries no token, a
\* token that fails verification or a token of a user that is not stored is
\* answered 401 whatever its body and id (before the role check, the body
\* validation and the entity lookup), and changes no table.
C2_GateFirst ==
    Llega =>
      \A h \in Headers :
        Resuelve(h) = 0 =>
          \A o \in Protegidas(FALSE, h) : o.resp = E401 /\ o.intacto

\* An appointment creation has been answered 401.
C2_Witness ==
    /\ last.op = "crear_cita"
    /\ last.method = "POST"
    /\ last.status = 401

(***************************************************************************)
(* C3: a token identifies the user it was issued to.                       *)
(***************************************************************************)
\* C3: while it is unexpired, the token that registro or login returned for a
\* user verifies to that user's id, and GET /api/auth/me with it is answered
\* 200 with that user's record.
C3_RoundTrip ==
    (held.token # NoJwt /\ held.token.exp > now) =>
      LET r == get_current_usuario(R(FALSE, "GET", Bearer(held.token))) IN
      /\ verificar_token(held.token) = held.usuario.id
      /\ held.usuario.id \in DOMAIN usuarios
      /\ r.status = 200
      /\ r.usuario = held.usuario
      /\ r.usuario = Usuario_to_dict(usuarios, held.usuario.id)

\* Some time after a registered user kept the token, /me answered with the
\* record of that user.
C3_Witness ==
    /\ held.token # NoJwt
    /\ held.usuario.id = 2
    /\ now > 0
    /\ held.token.exp > now
    /\ last.op = "get_current_usuario"
    /\ last.status = 200
    /\ last.usuario = held.usuario

(***************************************************************************)
(* C4: expiry.                                                             *)
(***************************************************************************)
\* Every token registro and login hand out at this moment expires
\* JWT_EXPIRATION_HOURS from now.
C4_Emitidos ==
    /\ \A d \in LoginBodies :
         LET r == login(R(FALSE, "POST", NoHeader), d) IN
         r.token # NoJwt => r.token.exp = now + JWT_EXPIRATION_HOURS
    /\ \A x \in RegistroBodies \X Salts :
         LET r == registro(R(FALSE, "POST", NoHeader), x[1], x[2]).resp IN
         r.token # NoJwt => r.token.exp = now + JWT_EXPIRATION_HOURS

\* A correctly signed token of a stored user passes the gate of every route
\* exactly while its exp lies after the current time.
C4_Aceptados ==
    \A h \in Headers :
      (h.kind = "bearer" /\ h.jwt.key = SECRET_KEY
       /\ h.jwt.usuario_id \in DOMAIN usuarios) =>
        IF h.jwt.exp > now
        THEN \A o \in Protegidas(FALSE, h) : o.resp.status # 401
        ELSE \A o \in Protegidas(FALSE, h) : o.resp = E401

\* A header that passes the gate passes it after every step in which the
\* clock stands still.
C4_SoloElTiempo ==
    \A h \in Headers :
      (verify_token_and_get_user(h) # 0 /\ now' = now) =>
        verify_token_and_get_user(h)' = verify_token_and_get_user(h)

\* C4: a token issued at time t carries exp = t + JWT_EXPIRATION_HOURS; a
\* presented token is accepted only while exp > now; and nothing but the
\* passage of time makes an accepted token rejected.
C4_Expiry ==
    /\ [](Llega => (C4_Emitidos /\ C4_Aceptados))
    /\ [][C4_SoloElTiempo]_vars

\* The token the client kept has expired and a route behind the gate has
\* answered 401.
C4_Witness ==
    /\ held.token # NoJwt
    /\ held.token.exp <= now
    /\ last.op = "logout"
    /\ last.status = 401

(***************************************************************************)
(* C5: duplicate email.                                                    *)
(***************************************************************************)
\* C5: a registration (a body with email, password and nombre) whose email is
\* that of a stored user is answered 409 without a token and leaves the user
\* table unchanged; a body with that email answers without a token and
\* changes nothing whatever else it carries; and no two stored users share an
\* email.
C5_EmailUnico ==
    /\ Llega =>
         \A x \in RegistroBodies \X Salts :
           LET d == x[1]
               r == registro(R(FALSE, "POST", NoHeader), d, x[2])
           IN (\E i \in DOMAIN usuarios : usuarios[i].email = d.email) =>
                /\ r.resp.token = NoJwt
                /\ r.usuarios = usuarios
                /\ r.resp.status # 201
                /\ (d.password # AUSENTE /\ d.nombre # AUSENTE) =>
                     r.resp = Resp(409, "El email ya esta registrado")
    /\ \A i, j \in DOMAIN usuarios :
         usuarios[i].email = usuarios[j].email => i = j

\* A registration has been answered 409 while two users are stored.
C5_Witness ==
    /\ last.op = "registro"
    /\ last.status = 409
    /\ Len(usuarios) = 2

(***************************************************************************)
(* C6: login with wrong credentials.                                       *)
(***************************************************************************)
\* The stored password of user i is p.
PasswordDe(i, p) ==
    usuarios[i].password_hash =
        generate_password_hash(p, usuarios[i].password_hash.salt)

\* A login (a body with email and password) is answered 200 with a token of
\* the user when the email is stored and the password is the stored one, and
\* otherwise 401 with one and the same body, whether the email is unknown or
\* the password is wrong.
C6_Respuesta ==
    \A d \in LoginBodies :
      (d.json # "null" /\ d.email # AUSENTE /\ d.password # AUSENTE) =>
        LET r == login(R(FALSE, "POST", NoHeader), d)
            ok == \E i \in DOMAIN usuarios :
                    usuarios[i].email = d.email /\ PasswordDe(i, d.password)
        IN IF ok
           THEN /\ r.status = 200
                /\ r.token.usuario_id \in DOMAIN usuarios
                /\ usuarios[r.token.usuario_id].email = d.email
           ELSE r = Resp(401, "Email o contrasena incorrectos")

\* A login answered 401 changes no table.
C6_SinCambio ==
    (Llega /\ last'.op = "login" /\ last'.status = 401) => tablas' = tablas

\* C6: a login with an unknown email or a wrong password is answered 401 with
\* the same body in both cases and changes no state; however many attempts
\* have failed, the login with the correct password succeeds.
C6_LoginFallido ==
    /\ [](Llega => C6_Respuesta)
    /\ [][C6_SinCambio]_vars

\* A login has been answered 401.
C6_Witness ==
    /\ last.op = "login"
    /\ last.method = "POST"
    /\ last.status = 401

(***************************************************************************)
(* C7: logout keeps no state.                                              *)
(***************************************************************************)
\* A logout with a token that resolves to a stored user is answered 200.
C7_Respuesta ==
    \A h \in Headers : Resuelve(h) # 0 => logout(R(FALSE, "POST", h)) = Resp(200, "")

\* A logout answered 200 changes no table, and every header that resolved to
\* a user before it resolves to the same user after it and passes the gate of
\* every route.
C7_SinEstado ==
    (Llega /\ last'.op = "logout" /\ last'.method = "POST" /\ last'.status = 200) =>
      /\ tablas' = tablas
      /\ \A h \in Headers :
           Resuelve(h) # 0 =>
             /\ verify_token_and_get_user(h)' = Resuelve(h)
             /\ (\A o \in Protegidas(FALSE, h) : o.resp.status # 401)'

\* C7: POST /api/auth/logout with a valid token is answered 200 and changes
\* nothing on the server; the token is accepted by every route afterwards.
C7_Logout ==
    /\ [](Llega => C7_Respuesta)
    /\ [][C7_SinEstado]_vars

\* The user who kept a token has logged out.
C7_Witness ==
    /\ held.token # NoJwt
    /\ held.token.exp > now
    /\ last.op = "logout"
    /\ last.method = "POST"
    /\ last.status = 200

(***************************************************************************)
(* C8: OPTIONS.                                                            *)
(***************************************************************************)
\* C8: an OPTIONS request to any route, /api/init-data included, is answered
\* 200 with an empty body whatever token and body it carries, and changes no
\* table.
C8_Options ==
    Llega =>
      \A h \in Headers \cup OptHeaders :
        \A o \in Protegidas(TRUE, h) \cup Publicas(TRUE, h) :
          o.resp = Preflight /\ o.intacto

\* An OPTIONS request to /api/init-data has been answered while an
\* appointment is stored.
C8_Witness ==
    /\ last.op = "init_data"
    /\ last.method = "OPTIONS"
    /\ last.status = 200
    /\ DOMAIN citas # {}

(***************************************************************************)
(* C9: who may read the lists.                                             *)
(***************************************************************************)
ListasAdmin == {"get_barberos", "get_servicios"}

\* C9, as stated: with a token that resolves to a stored user, of whichever
\* role, the GET list of barbers, clients, services and appointments is
\* answered 200.
C9_Original ==
    Llega =>
      \A h \in Headers :
        Resuelve(h) # 0 =>
          /\ get_barberos(R(FALSE, "GET", h)).resp.status = 200
          /\ get_clientes(R(FALSE, "GET", h)).resp.status = 200
          /\ get_servicios(R(FALSE, "GET", h)).resp.status = 200
          /\ get_citas(R(FALSE, "GET", h)).resp.status = 200

\* C9, amended: with a token that resolves to a stored user, the GET list of
\* clients and of appointments is answered 200 whatever the role; the GET
\* list of barbers and of services is answered 200 for an admin and 403 for
\* any other role.  For a user who is not an admin the routes answered 403
\* are exactly the routes of barbers and services, list and mutations alike.
C9_Listas ==
    Llega =>
      \A h \in Headers :
        LET u == Resuelve(h) IN
        u # 0 =>
          /\ get_clientes(R(FALSE, "GET", h)).resp = Resp(200, "")
          /\ get_clientes(R(FALSE, "GET", h)).body =
               [id \in DOMAIN clientes |-> Cliente_to_dict(id)]
          /\ get_citas(R(FALSE, "GET", h)).resp.status = 200
          /\ IF usuarios[u].rol = "admin"
             THEN /\ get_barberos(R(FALSE, "GET", h)).resp = Resp(200, "")
                  /\ get_servicios(R(FALSE, "GET", h)).resp = Resp(200, "")
                  /\ \A o \in Protegidas(FALSE, h) : o.resp.status # 403
             ELSE \A o \in Protegidas(FALSE, h) :
                    o.resp.status = 403 <=> o.ruta \in ListasAdmin \cup AdminMutaciones

\* A non-admin user is stored and the barber list has been answered 403.
C9_Witness ==
    /\ \E i \in DOMAIN usuarios : usuarios[i].rol # "admin"
    /\ last.op = "get_barberos"
    /\ last.method = "GET"
    /\ last.status = 403

(***************************************************************************)
(* C10: validation of a new appointment.                                   *)
(***************************************************************************)
\* C10, as stated: POST /api/citas with a valid token is answered 400 when
\* the body lacks barbero_id, servicio_id or precio, and 404 when the barber,
\* the service or a supplied client is not stored; in both cases the
\* appointment table is unchanged, and a row is inserted only when neither
\* is the case.
C10_Validacion ==
    Llega =>
      \A h \in Headers :
        Resuelve(h) # 0 =>
          \A d \in CrearCitaBodies :
            LET r == crear_cita(R(FALSE, "POST", h), d)
                falta == \/ d.barbero_id = NAUSENTE
                         \/ d.servicio_id = NAUSENTE
                         \/ d.precio = NAUSENTE
                suministrado == d.cliente_id # NAUSENTE /\ d.cliente_id # 0
                ausente == \/ d.barbero_id \notin DOMAIN barberos
                           \/ d.servicio_id \notin DOMAIN servicios
                           \/ suministrado /\ d.cliente_id \notin DOMAIN clientes
            IN /\ falta => (r.resp.status = 400 /\ r.citas = citas)
               /\ (~falta /\ ausente) => (r.resp.status = 404 /\ r.citas = citas)
               /\ r.citas # citas => (~falta /\ ~ausente /\ r.resp.status = 201)

(***************************************************************************)
(* C11: the error body of the gate.                                        *)
(***************************************************************************)
\* The four steps at which the gate fails.
FaltaHeader(h) == h.kind = "absent"

SinParteToken(h) == h.kind = "bare"

NoVerifica(h) == h.kind = "bearer" /\ (h.jwt.key # SECRET_KEY \/ h.jwt.exp <= now)

SinUsuario(h) ==
    /\ h.kind = "bearer"
    /\ h.jwt.key = SECRET_KEY
    /\ h.jwt.exp > now
    /\ h.jwt.usuario_id \notin 1..Len(usuarios)

\* C11, as stated: the gate answers 401 with a body that names the failing
\* step: 'Token no encontrado' for a missing header, 'Formato de token
\* invalido' for a header without a token part, 'Token invalido o expirado'
\* for a token that fails verification and 'Usuario no encontrado' for a
\* verified token of a user that is not stored.
C11_Original ==
    Llega =>
      \A h \in Headers :
        \A o \in Protegidas(FALSE, h) :
          /\ FaltaHeader(h) => o.resp = Resp(401, "Token no encontrado")
          /\ SinParteToken(h) => o.resp = Resp(401, "Formato de token invalido")
          /\ NoVerifica(h) => o.resp = Resp(401, "Token invalido o expirado")
          /\ SinUsuario(h) => o.resp = Resp(401, "Usuario no encontrado")

\* C11, amended: at each of the four failing steps the gate of every route
\* answers 401 with one and the same body, 'Token invalido o no encontrado';
\* the body does not tell the steps apart.
C11_Mensajes ==
    Llega =>
      \A h \in Headers :
        (FaltaHeader(h) \/ SinParteToken(h) \/ NoVerifica(h) \/ SinUsuario(h)) =>
          \A o \in Protegidas(FALSE, h) :
            /\ o.resp.status = 401
            /\ o.resp.error = "Token invalido o no encontrado"

\* The four failing steps all occur among the requests, and /me has answered
\* 401 with the common body.
C11_Witness ==
    /\ \E h \in Headers : FaltaHeader(h)
    /\ \E h \in Headers : SinParteToken(h)
    /\ \E h \in Headers : NoVerifica(h)
    /\ \E h \in Headers : SinUsuario(h)
    /\ last.op = "get_current_usuario"
    /\ last.status = 401
    /\ last.error = "Token invalido o no encontrado"

(***************************************************************************)
(* C12: datastore connectivity failures.                                   *)
(***************************************************************************)
\* C12, as stated: a request during which a datastore call of the handler
\* (the user lookup of the gate, a list query, an entity lookup, a commit)
\* fails for loss of connectivity is answered 503, never 401 and never 500.
C12_Transitorio ==
    Llega =>
      \A ruta \in RutasBD, h \in Headers, error \in ErroresBD :
        \A punto \in PuntosBD(ruta) :
          Alcanza(ruta, punto, h) => falla_bd(ruta, punto, error).status = 503

(***************************************************************************)
(* C13: who changes the barber and service tables.                         *)
(***************************************************************************)
\* The header carries a valid, unexpired token of a stored admin.
EsAdmin(h) == Resuelve(h) # 0 /\ usuarios[Resuelve(h)].rol = "admin"

\* The routes whose handlers write to the barber or the service table.
EscribenCatalogo == AdminMutaciones \cup {"init_data"}

\* No request without the token of an admin changes the barber or the
\* service table.
C13_SinAdmin ==
    \A h \in Headers :
      ~EsAdmin(h) =>
        \A o \in Protegidas(FALSE, h) \cup Publicas(FALSE, h) :
          o.ruta \in EscribenCatalogo => o.intacto

\* A step that changes the barber or the service table is the successful
\* answer of one of their POST, PUT and DELETE routes.
C13_Paso ==
    (barberos' # barberos \/ servicios' # servicios) =>
      (last'.op \in AdminMutaciones /\ last'.status \in {200, 201})

\* C13, as stated: in any sequence of requests after startup the barber and
\* service tables change only in a request that carries a valid, unexpired
\* token of a stored user whose rol is 'admin'.
C13_SoloAdmin ==
    /\ [](Llega => C13_SinAdmin)
    /\ [][C13_Paso]_vars

(***************************************************************************)
(* C14: two registrations of one email at once.                            *)
(***************************************************************************)
\* Both workers have answered a registration of the same email, which was
\* not stored when the first of them queried for it.
AmbosRespondidos ==
    /\ pend[1].pc = "respondido"
    /\ pend[2].pc = "respondido"
    /\ pend[1].email = pend[2].email
    /\ ~pend[1].visto \/ ~pend[2].visto

\* No two stored users share an email.
EmailsDistintos ==
    \A i, j \in DOMAIN usuarios : usuarios[i].email = usuarios[j].email => i = j

\* C14, as stated: of two concurrent registrations of the same email that is
\* not stored yet, in whatever order their queries and commits run, one is
\* answered 201 and the other 409, and at no point do two user records hold
\* the email.
C14_UnoSolo ==
    /\ EmailsDistintos
    /\ AmbosRespondidos =>
         {pend[1].resp.status, pend[2].resp.status} = {201, 409}

(***************************************************************************)
(* C15: referential integrity of the appointments.                         *)
(***************************************************************************)
\* Every stored appointment names a stored barber and a stored service, and
\* a stored client or none.
CitasIntegras ==
    \A id \in DOMAIN citas :
      /\ citas[id].barbero_id \in DOMAIN barberos
      /\ citas[id].servicio_id \in DOMAIN servicios
      /\ citas[id].cliente_id = NAUSENTE \/ citas[id].cliente_id \in DOMAIN clientes

\* C15: in every state reached by create, update and delete requests on
\* barbers, services, clients and appointments, every stored appointment
\* names a stored barber and a stored service and a stored client or none,
\* and GET /api/citas with a valid token serializes every appointment.
C15_Integridad ==
    /\ CitasIntegras
    /\ Llega =>
         \A h \in Headers :
           Resuelve(h) # 0 =>
             LET r == get_citas(R(FALSE, "GET", h)) IN
             /\ r.resp.status = 200
             /\ DOMAIN r.body = DOMAIN citas

\* The deletion of a barber that an appointment names has been refused,
\* while that appointment has no client and the only client created so far
\* has been deleted.
C15_Witness ==
    /\ last.op = "eliminar_barbero"
    /\ last.status = 500
    /\ \E id \in DOMAIN citas : citas[id].barbero_id = 1
    /\ \E id \in DOMAIN citas : citas[id].cliente_id = NAUSENTE /\ citas[id].barbero_id = 1
    /\ seq.clientes > 1
    /\ DOMAIN clientes = {}

(***************************************************************************)
(* C16: an update of an appointment is all or nothing.                     *)
(***************************************************************************)
\* C16: PUT /api/citas/<id> with a valid token is answered 404 when the
\* appointment, or a client, barber or service the body names, is not
\* stored, and 400 when the body's fecha is not a date; in each of these
\* cases the stored appointment is unchanged in every field, also in the
\* fields the body assigns before the failing check; the appointment table
\* changes only when the answer is 200.
C16_TodoONada ==
    Llega =>
      \A h \in Headers :
        Resuelve(h) # 0 =>
          \A id \in IdInputs, d \in ActualizarCitaBodies :
            LET r == actualizar_cita(R(FALSE, "PUT", h), id, d)
                sinCita == id \notin DOMAIN citas
                sinRef ==
                    \/ d.cliente_id \notin {NAUSENTE, 0} /\ d.cliente_id \notin DOMAIN clientes
                    \/ d.barbero_id # NAUSENTE /\ d.barbero_id \notin DOMAIN barberos
                    \/ d.servicio_id # NAUSENTE /\ d.servicio_id \notin DOMAIN servicios
                malaFecha == d.fecha \notin {AUSENTE, "1970-01-03T00:00:00"}
            IN /\ sinCita => (r.resp.status = 404 /\ r.citas = citas)
               /\ (~sinCita /\ d.json = "object" /\ sinRef) =>
                    (r.resp.status = 404 /\ r.citas = citas)
               /\ (~sinCita /\ d.json = "object" /\ ~sinRef /\ malaFecha) =>
                    (r.resp.status = 400 /\ r.citas = citas)
               /\ r.resp.status # 200 => r.citas = citas

\* An update whose body clears the client and names a barber that is not
\* stored has been answered 404, and the appointment still has its client.
C16_Witness ==
    /\ last.op = "actualizar_cita"
    /\ last.method = "PUT"
    /\ last.status = 404
    /\ last.error = "Barbero no encontrado"
    /\ 1 \in DOMAIN citas
    /\ citas[1].cliente_id = 1

====
